---- MODULE Spec2Model ----
(***************************************************************************)
(* Model of tess_lc_2_csv.py: main() exports HDU 1 of a FITS file to a CSV *)
(* file next to it, after dropping rows with invalid TIME or SAP_FLUX and  *)
(* appending BJD_TDB, Source_AMag_T1 and Source_AMag_Error_T1.             *)
(*                                                                         *)
(* Units.  Floating-point values are records [k, v]: k is "fin", "nan",    *)
(* "inf" or "ninf", and v is the integer value of a finite number.  Flux   *)
(* is in counts, time in days, magnitudes in quarter magnitudes (so that   *)
(* -2.5 * log10 of a power of ten and the mean of two such values are      *)
(* integers), magnitude errors in 1e-6 magnitudes.                         *)
(***************************************************************************)
EXTENDS Integers, Sequences, FiniteSets, TLC

\* Largest number of rows of an input table.
MaxRows == 2
\* Largest number of consecutive runs of main on the same file.
MaxRuns == 2

VARIABLES
    input,       \* the FITS file at input_path: kind, primary-header TESSMAG, HDU 1 table
    overwrite,   \* args.overwrite of the current run
    csv,         \* the file at csv_path
    csvAtStart,  \* csv when the current run started
    pc,          \* position of the current run inside main
    hdul,        \* TRUE while the handle of fits.open is open
    everOpened,  \* TRUE once the current run called fits.open
    table,       \* the in-memory Table of the current run
    filtered,    \* the Table as it left the SAP_FLUX filter (line 135)
    zero_point,  \* zero_point of line 156/158, None while not assigned
    stderr,      \* the messages the current run wrote to sys.stderr
    exitCode,    \* return value of main, -1 while running
    failedAt,    \* the place in main that decided a non-zero exit code
    runs         \* number of runs started so far

vars == <<input, overwrite, csv, csvAtStart, pc, hdul, everOpened, table,
          filtered, zero_point, stderr, exitCode, failedAt, runs>>

----------------------------------------------------------------------------
(* Floating point *)

Fin(x) == [k |-> "fin", v |-> x]
NaN == [k |-> "nan", v |-> 0]
PosInf == [k |-> "inf", v |-> 0]
NegInf == [k |-> "ninf", v |-> 0]
None == [k |-> "none", v |-> 0]

isnan(f) == f.k = "nan"
isfinite(f) == f.k = "fin"

\* a + b of two floats (lines 138, 160); None never reaches it.
FAdd(a, b) ==
    IF isnan(a) \/ isnan(b) THEN NaN
    ELSE IF a.k = "fin" /\ b.k = "fin" THEN Fin(a.v + b.v)
    ELSE IF a.k = "fin" THEN b
    ELSE IF b.k = "fin" THEN a
    ELSE IF a.k = b.k THEN a
    ELSE NaN

\* a - b of two floats (line 156).
FNeg(a) ==
    IF a.k = "fin" THEN Fin(0 - a.v)
    ELSE IF a.k = "inf" THEN NegInf
    ELSE IF a.k = "ninf" THEN PosInf
    ELSE a

FSub(a, b) == FAdd(a, FNeg(b))

\* floor(log10(x)) of a positive integer, exact on the powers of ten.
RECURSIVE Log10Int(_)
Log10Int(x) == IF x < 10 THEN 0 ELSE 1 + Log10Int(x \div 10)

\* np.log10 under errstate(invalid="ignore", divide="ignore"): NaN below zero,
\* -inf at zero. The result is in dex.
log10(f) ==
    IF f.k = "nan" \/ f.k = "ninf" THEN NaN
    ELSE IF f.k = "inf" THEN PosInf
    ELSE IF f.v < 0 THEN NaN
    ELSE IF f.v = 0 THEN NegInf
    ELSE Fin(Log10Int(f.v))

\* -2.5 * x, x in dex, the product in quarter magnitudes.
TimesMinus2p5(f) ==
    IF f.k = "fin" THEN Fin((0 - 10) * f.v)
    ELSE FNeg(f)

\* 1.0857 * (e / f) in 1e-6 magnitudes (line 170); e and f finite or NaN.
\* The quotient is exact on the fluxes of the model (1, 10, 100 and -1).
MagErrOf(e, f) ==
    IF isnan(e) \/ isnan(f) THEN NaN
    ELSE IF f.v = 0 THEN (IF e.v = 0 THEN NaN ELSE IF e.v > 0 THEN PosInf ELSE NegInf)
    ELSE IF f.v > 0 THEN Fin((1085700 * e.v) \div f.v)
    ELSE Fin(0 - ((1085700 * e.v) \div (0 - f.v)))

----------------------------------------------------------------------------
(* Tables *)

ColNames == {"CADENCENO", "TIME", "SAP_FLUX", "SAP_FLUX_ERR",
             "BJD_TDB", "Source_AMag_T1", "Source_AMag_Error_T1"}

\* A column: its cells (value v, mask bit m), and whether it carries a mask
\* at all (a MaskedColumn whose mask is not np.ma.nomask).
NoCol == [present |-> FALSE, hasMask |-> FALSE, cells |-> <<>>]
Col(hm, cs) == [present |-> TRUE, hasMask |-> hm, cells |-> cs]
Cell(val, mb) == [v |-> val, m |-> mb]

EmptyTable == [c \in ColNames |-> NoCol]

\* len(table): CADENCENO is present in every table of the model.
NRows(t) == Len(t["CADENCENO"].cells)

\* "X" in table.colnames
HasColumn(t, name) == t[name].present

\* seq[keep] for a boolean array keep of the same length.
RECURSIVE SelectCells(_, _)
SelectCells(cs, keep) ==
    IF cs = <<>> THEN <<>>
    ELSE IF Head(keep) THEN <<Head(cs)>> \o SelectCells(Tail(cs), Tail(keep))
    ELSE SelectCells(Tail(cs), Tail(keep))

\* table[keep]: every column is indexed with the same boolean array.
TableIndex(t, keep) ==
    [c \in ColNames |->
        IF t[c].present THEN [t[c] EXCEPT !.cells = SelectCells(@, keep)]
        ELSE t[c]]

\* KeepMask without the NaN test: only the explicit mask removes a row.
KeepMaskMaskOnly(col, n) ==
    [i \in 1..n |-> IF col.hasMask THEN ~col.cells[i].m ELSE TRUE]

\* not_masked & not_nan of one column (lines 107-115 and 126-134).
KeepMask(col, n) ==
    [i \in 1..n |->
        /\ (IF col.hasMask THEN ~col.cells[i].m ELSE TRUE)
        /\ ~isnan(col.cells[i].v)]

\* A column built from an array of values.
ValuesCol(vals) == Col(FALSE, [i \in 1..Len(vals) |-> Cell(vals[i], FALSE)])
\* np.asarray(col, dtype=float): the values under the mask.
ValuesOf(col) == [i \in 1..Len(col.cells) |-> col.cells[i].v]

----------------------------------------------------------------------------
(* Derived columns, lines 137-173 *)

\* table["TIME"] + 2457000.0
BJD_OFFSET == 2457000
BjdColumn(t) == ValuesCol([i \in 1..NRows(t) |-> FAdd(ValuesOf(t["TIME"])[i], Fin(BJD_OFFSET))])

\* raw_mag = -2.5 * np.log10(table["SAP_FLUX"])
RawMag(t) == [i \in 1..NRows(t) |-> TimesMinus2p5(log10(ValuesOf(t["SAP_FLUX"])[i]))]

\* valid_mask = np.isfinite(raw_mag)
ValidMask(raw) == [i \in 1..Len(raw) |-> isfinite(raw[i])]

\* Insertion of an integer into a sorted sequence of integers.
RECURSIVE Insert(_, _)
Insert(x, s) ==
    IF s = <<>> THEN <<x>>
    ELSE IF x <= Head(s) THEN <<x>> \o s
    ELSE <<Head(s)>> \o Insert(x, Tail(s))

RECURSIVE Sorted(_)
Sorted(s) == IF s = <<>> THEN <<>> ELSE Insert(Head(s), Sorted(Tail(s)))

\* np.nanmedian of a non-empty array of finite values: the middle value of
\* the sorted array, or the mean of the two middle values.
nanmedian(vals) ==
    LET s == Sorted([i \in 1..Len(vals) |-> vals[i].v])
        n == Len(s)
    IN  IF n % 2 = 1 THEN Fin(s[(n + 1) \div 2])
        ELSE Fin((s[n \div 2] + s[n \div 2 + 1]) \div 2)

\* ZeroPoint with the else branch taking a zero reference magnitude.
ZeroPointNegMedian(tess_mag, median_raw_mag) ==
    IF tess_mag # None THEN FSub(tess_mag, median_raw_mag)
    ELSE FSub(Fin(0), median_raw_mag)

\* ZeroPoint with the median added instead of subtracted.
ZeroPointPlusMedian(tess_mag, median_raw_mag) ==
    IF tess_mag # None THEN FAdd(tess_mag, median_raw_mag) ELSE Fin(0)

\* zero_point of lines 155-158.
ZeroPoint(tess_mag, median_raw_mag) ==
    IF tess_mag # None THEN FSub(tess_mag, median_raw_mag) ELSE Fin(0)

\* The value zero_point holds after lines 144-162 (None: never assigned).
ZeroPointOf(t, tess_mag) ==
    LET raw == RawMag(t)
        valid == ValidMask(raw)
    IN  IF \E i \in 1..Len(raw) : valid[i]
        THEN ZeroPoint(tess_mag, nanmedian(SelectCells(raw, valid)))
        ELSE None

\* table["Source_AMag_T1"] of lines 160 and 162.
AMagColumn(t, tess_mag) ==
    LET raw == RawMag(t)
        zp == ZeroPointOf(t, tess_mag)
    IN  IF zp # None
        THEN ValuesCol([i \in 1..Len(raw) |-> FAdd(raw[i], zp)])
        ELSE ValuesCol([i \in 1..Len(raw) |-> NaN])

\* mag_err of line 170.
AMagErrorColumn(t) ==
    ValuesCol([i \in 1..NRows(t) |->
        MagErrOf(ValuesOf(t["SAP_FLUX_ERR"])[i], ValuesOf(t["SAP_FLUX"])[i])])

\* DeriveTable keeping only the rows with a finite raw magnitude.
DeriveTableFiniteOnly(t, tess_mag) ==
    LET t1 == IF HasColumn(t, "TIME") THEN [t EXCEPT !["BJD_TDB"] = BjdColumn(t)] ELSE t
        t2 == [t1 EXCEPT !["Source_AMag_T1"] = AMagColumn(t, tess_mag)]
        t3 == IF HasColumn(t, "SAP_FLUX_ERR")
              THEN [t2 EXCEPT !["Source_AMag_Error_T1"] = AMagErrorColumn(t)]
              ELSE t2
    IN  TableIndex(t3, ValidMask(RawMag(t)))

\* The table after lines 137-173: the derived columns are added, no row is
\* removed.
DeriveTable(t, tess_mag) ==
    LET t1 == IF HasColumn(t, "TIME") THEN [t EXCEPT !["BJD_TDB"] = BjdColumn(t)] ELSE t
        t2 == [t1 EXCEPT !["Source_AMag_T1"] = AMagColumn(t, tess_mag)]
    IN  IF HasColumn(t, "SAP_FLUX_ERR")
        THEN [t2 EXCEPT !["Source_AMag_Error_T1"] = AMagErrorColumn(t)]
        ELSE t2

\* DeriveWarnings without the two sys.stderr.write calls.
DeriveWarningsSilent(t, tess_mag) == {}

\* The warnings of lines 142 and 173.
DeriveWarnings(t, tess_mag) ==
    (IF tess_mag = None THEN {"warn_tessmag"} ELSE {})
    \cup (IF HasColumn(t, "SAP_FLUX_ERR") THEN {} ELSE {"warn_fluxerr"})

----------------------------------------------------------------------------
(* Files *)

\* The file at input_path. "Vanishing" exists at line 74 and is gone at line
\* 87; "Corrupt" makes fits.open raise OSError; "DataOSError" and "DataError"
\* make the read of hdu1.data raise OSError or another exception.
NonTableKinds == {"Missing", "Vanishing", "Corrupt", "OneHdu", "ImageHdu",
                  "NoData", "DataOSError", "DataError"}

TimeCell(kind, i) ==
    IF kind = "nan" THEN Cell(NaN, FALSE)
    ELSE IF kind = "masked" THEN Cell(Fin(i), TRUE)
    ELSE Cell(Fin(i), FALSE)

FluxCell(kind) ==
    IF kind = "nan" THEN Cell(NaN, FALSE)
    ELSE IF kind = "masked" THEN Cell(Fin(10), TRUE)
    ELSE IF kind = "neg" THEN Cell(Fin(0 - 1), FALSE)
    ELSE IF kind = "zero" THEN Cell(Fin(0), FALSE)
    ELSE IF kind = "f10" THEN Cell(Fin(10), FALSE)
    ELSE Cell(Fin(100), FALSE)

TimeKinds == {"ok", "nan", "masked"}
FluxKinds == {"nan", "masked", "neg", "zero", "f10", "f100"}

\* A TIME or SAP_FLUX column of n cells of the given kinds; it carries a mask
\* when one of its cells is masked.
TimeCol(f, n) ==
    Col(\E i \in 1..n : f[i] = "masked", [i \in 1..n |-> TimeCell(f[i], i)])

FluxCol(f, n) ==
    Col(\E i \in 1..n : f[i] = "masked", [i \in 1..n |-> FluxCell(f[i])])

TablesOf(n) ==
    { [c \in ColNames |->
         IF c = "CADENCENO" THEN ValuesCol([i \in 1..n |-> Fin(i)])
         ELSE IF c = "TIME" THEN tc
         ELSE IF c = "SAP_FLUX" THEN fc
         ELSE IF c = "SAP_FLUX_ERR" THEN ec
         ELSE NoCol] :
      tc \in {NoCol} \cup { TimeCol(f, n) : f \in [1..n -> TimeKinds] },
      fc \in {NoCol} \cup { FluxCol(f, n) : f \in [1..n -> FluxKinds] },
      ec \in {NoCol, ValuesCol([i \in 1..n |-> Fin(1)])} }

Tables == UNION { TablesOf(n) : n \in 0..MaxRows }

\* hdul[0].header.get("TESSMAG"): absent, or 10.0 mag.
TessMags == {None, Fin(40)}

InputFiles ==
    { [kind |-> k, tess |-> None, tab |-> EmptyTable] : k \in NonTableKinds }
    \cup { [kind |-> "Table", tess |-> tm, tab |-> t] : tm \in TessMags, t \in Tables }

\* The file at csv_path: absent, a file written by something else ("old"),
\* a file table.write completed ("full", with the table it holds), or a
\* file table.write opened and did not complete ("partial").
CsvAbsent == [kind |-> "absent", tab |-> EmptyTable]
CsvOld == [kind |-> "old", tab |-> EmptyTable]
CsvPartial == [kind |-> "partial", tab |-> EmptyTable]
CsvFull(t) == [kind |-> "full", tab |-> t]

\* csv_path.exists()
CsvExists(c) == c.kind # "absent"

----------------------------------------------------------------------------
(* main, lines 68-195 *)

\* InputExists without the test of line 74.
InputExistsUnchecked(inp) == TRUE

\* input_path.exists(), line 74
InputExists(inp) == inp.kind # "Missing"

\* DestinationBlocked without the test of line 79.
DestinationNeverBlocked(c, ow) == FALSE

\* csv_path.exists() and not args.overwrite, line 79
DestinationBlocked(c, ow) == CsvExists(c) /\ ~ow

\* HduCheck without the test of line 100.
HduCheckWithoutData(inp) ==
    IF inp.kind = "OneHdu" THEN "no_hdu1"
    ELSE IF inp.kind = "ImageHdu" THEN "not_table"
    ELSE "ok"

\* The checks of lines 88-102 on an opened file: the message of the failing
\* check, or "ok".
HduCheck(inp) ==
    IF inp.kind = "OneHdu" THEN "no_hdu1"
    ELSE IF inp.kind = "ImageHdu" THEN "not_table"
    ELSE IF inp.kind = "NoData" THEN "no_data"
    ELSE "ok"

\* WithExit of a block that does not release the handle.
WithExitLeak(h) == h

\* The handle after control left the with block of line 87.
WithExit(h) == FALSE

Init ==
    /\ input \in InputFiles
    /\ overwrite \in BOOLEAN
    /\ csv \in {CsvAbsent, CsvOld}
    /\ csvAtStart = csv
    /\ pc = "check_input"
    /\ hdul = FALSE
    /\ everOpened = FALSE
    /\ table = EmptyTable
    /\ filtered = EmptyTable
    /\ zero_point = None
    /\ stderr = {}
    /\ exitCode = 0 - 1
    /\ failedAt = "none"
    /\ runs = 1

\* return <code> after a message on stderr; at, the place that decided it.
Return(code, msg, at) ==
    /\ pc' = "done"
    /\ exitCode' = code
    /\ stderr' = stderr \cup {msg}
    /\ failedAt' = at

\* Lines 72-76.
CheckInput ==
    /\ pc = "check_input"
    /\ IF ~InputExists(input)
       THEN Return(2, "not_found", "input")
       ELSE /\ pc' = "check_dest"
            /\ UNCHANGED <<exitCode, stderr, failedAt>>
    /\ UNCHANGED <<input, overwrite, csv, csvAtStart, hdul, everOpened, table,
                   filtered, zero_point, runs>>

\* Lines 78-84.
CheckDestination ==
    /\ pc = "check_dest"
    /\ IF DestinationBlocked(csv, overwrite)
       THEN Return(6, "dest_exists", "dest")
       ELSE /\ pc' = "open"
            /\ UNCHANGED <<exitCode, stderr, failedAt>>
    /\ UNCHANGED <<input, overwrite, csv, csvAtStart, hdul, everOpened, table,
                   filtered, zero_point, runs>>

\* Line 87 and the handlers of lines 184-189 for an exception of fits.open.
OpenFits ==
    /\ pc = "open"
    /\ everOpened' = TRUE
    /\ IF input.kind \in {"Missing", "Vanishing"}
       THEN Return(2, "not_found", "open") /\ UNCHANGED hdul
       ELSE IF input.kind = "Corrupt"
       THEN Return(3, "open_error", "open") /\ UNCHANGED hdul
       ELSE /\ hdul' = TRUE
            /\ pc' = "check_hdu"
            /\ UNCHANGED <<exitCode, stderr, failedAt>>
    /\ UNCHANGED <<input, overwrite, csv, csvAtStart, table, filtered,
                   zero_point, runs>>

\* Lines 88-103, and the handlers of lines 187-192 for an exception raised
\* while hdu1.data is read.
CheckHdu ==
    /\ pc = "check_hdu"
    /\ IF HduCheck(input) # "ok"
       THEN /\ Return(5, HduCheck(input), "hdu")
            /\ hdul' = WithExit(hdul)
            /\ UNCHANGED table
       ELSE IF input.kind = "DataOSError"
       THEN /\ Return(3, "open_error", "data")
            /\ hdul' = WithExit(hdul)
            /\ UNCHANGED table
       ELSE IF input.kind # "Table"
       THEN /\ Return(4, "unexpected", "data")
            /\ hdul' = WithExit(hdul)
            /\ UNCHANGED table
       ELSE /\ table' = input.tab
            /\ pc' = "filter_time"
            /\ UNCHANGED <<exitCode, stderr, failedAt, hdul>>
    /\ UNCHANGED <<input, overwrite, csv, csvAtStart, everOpened, filtered,
                   zero_point, runs>>

\* Lines 105-116.
FilterTime ==
    /\ pc = "filter_time"
    /\ table' = IF HasColumn(table, "TIME")
                THEN TableIndex(table, KeepMask(table["TIME"], NRows(table)))
                ELSE table
    /\ pc' = "filter_flux"
    /\ UNCHANGED <<input, overwrite, csv, csvAtStart, hdul, everOpened,
                   filtered, zero_point, stderr, exitCode, failedAt, runs>>

\* Lines 118-135.
FilterFlux ==
    /\ pc = "filter_flux"
    /\ IF ~HasColumn(table, "SAP_FLUX")
       THEN /\ Return(5, "no_flux", "flux")
            /\ hdul' = WithExit(hdul)
            /\ UNCHANGED <<table, filtered>>
       ELSE /\ table' = TableIndex(table, KeepMask(table["SAP_FLUX"], NRows(table)))
            /\ filtered' = table'
            /\ pc' = "derive"
            /\ UNCHANGED <<exitCode, stderr, failedAt, hdul>>
    /\ UNCHANGED <<input, overwrite, csv, csvAtStart, everOpened, zero_point, runs>>

\* Lines 137-173.
Derive ==
    /\ pc = "derive"
    /\ table' = DeriveTable(table, input.tess)
    /\ zero_point' = ZeroPointOf(table, input.tess)
    /\ stderr' = stderr \cup DeriveWarnings(table, input.tess)
    /\ pc' = "write"
    /\ UNCHANGED <<input, overwrite, csv, csvAtStart, hdul, everOpened,
                   filtered, exitCode, failedAt, runs>>

\* Lines 175-183 and 194-195. table.write refuses an existing file when
\* overwrite is false; otherwise it opens csv_path for writing and writes the
\* text to it. The write can fail before the file is opened ("denied") or
\* after it was opened and before the text is complete ("truncated"); the
\* handler of line 181 reports the error and leaves csv_path as it is.
WriteCsv ==
    /\ pc = "write"
    /\ \E outcome \in {"ok", "denied", "truncated"} :
         IF (CsvExists(csv) /\ ~overwrite) \/ outcome = "denied"
         THEN /\ Return(6, "write_error", "write")
              /\ UNCHANGED csv
         ELSE IF outcome = "truncated"
         THEN /\ Return(6, "write_error", "write")
              /\ csv' = CsvPartial
         ELSE /\ csv' = CsvFull(table)
              /\ pc' = "done"
              /\ exitCode' = 0
              /\ UNCHANGED <<stderr, failedAt>>
    /\ hdul' = WithExit(hdul)
    /\ UNCHANGED <<input, overwrite, csvAtStart, everOpened, table, filtered,
                   zero_point, runs>>

\* main is called again on the same input_path, with or without --overwrite.
NewRun ==
    /\ pc = "done"
    /\ runs < MaxRuns
    /\ runs' = runs + 1
    /\ overwrite' \in BOOLEAN
    /\ csvAtStart' = csv
    /\ pc' = "check_input"
    /\ hdul' = FALSE
    /\ everOpened' = FALSE
    /\ table' = EmptyTable
    /\ filtered' = EmptyTable
    /\ zero_point' = None
    /\ stderr' = {}
    /\ exitCode' = 0 - 1
    /\ failedAt' = "none"
    /\ UNCHANGED <<input, csv>>

Next ==
    \/ CheckInput
    \/ CheckDestination
    \/ OpenFits
    \/ CheckHdu
    \/ FilterTime
    \/ FilterFlux
    \/ Derive
    \/ WriteCsv
    \/ NewRun

Spec == Init /\ [][Next]_vars

TypeOK ==
    /\ pc \in {"check_input", "check_dest", "open", "check_hdu", "filter_time",
               "filter_flux", "derive", "write", "done"}
    /\ exitCode \in {0 - 1, 0, 2, 3, 4, 5, 6}
    /\ runs \in 1..MaxRuns

----------------------------------------------------------------------------
(* Vocabulary of the properties *)

Done == pc = "done"

\* The run got past the SAP_FLUX filter of line 135.
PastFilter == filtered # EmptyTable

\* A value is invalid when its column carries a mask that flags it, or it is NaN.
Invalid(col, i) == (col.hasMask /\ col.cells[i].m) \/ col.cells[i].v.k = "nan"

\* The row indices of t that are valid in TIME (when t has TIME) and in SAP_FLUX.
SurvivingRows(t) ==
    { i \in 1..NRows(t) :
        /\ (t["TIME"].present => ~Invalid(t["TIME"], i))
        /\ ~Invalid(t["SAP_FLUX"], i) }

\* The elements of a set of integers in increasing order.
Ascending(S) ==
    [k \in 1..Cardinality(S) |->
        CHOOSE i \in S : Cardinality({j \in S : j <= i}) = k]

\* The k-th smallest of a sequence of integers, and their median.
KthSmallest(vals, k) ==
    CHOOSE x \in {vals[j] : j \in 1..Len(vals)} :
        /\ Cardinality({j \in 1..Len(vals) : vals[j] < x}) < k
        /\ k <= Cardinality({j \in 1..Len(vals) : vals[j] <= x})

MedianOf(vals) ==
    (KthSmallest(vals, (Len(vals) + 1) \div 2)
       + KthSmallest(vals, Len(vals) \div 2 + 1)) \div 2

\* The rows of a filtered table with positive flux: those with a finite
\* instrumental magnitude.
PositiveRows(t) ==
    { i \in 1..NRows(t) : t["SAP_FLUX"].cells[i].v.k = "fin" /\ t["SAP_FLUX"].cells[i].v.v > 0 }

NonPositiveRows(t) ==
    { i \in 1..NRows(t) : t["SAP_FLUX"].cells[i].v.k = "fin" /\ t["SAP_FLUX"].cells[i].v.v <= 0 }

\* The values of column name of t over the rows S, in row order.
ValuesOver(t, name, S) ==
    LET idx == Ascending(S)
    IN  [k \in 1..Len(idx) |-> t[name].cells[idx[k]].v.v]

\* The instrumental magnitudes of the positive-flux rows, in row order.
FiniteInstrumental(t) ==
    LET idx == Ascending(PositiveRows(t))
    IN  [k \in 1..Len(idx) |-> RawMag(t)[idx[k]].v]

----------------------------------------------------------------------------
(* Properties *)

\* C1: once both filters ran, the table holds exactly the rows of HDU 1 whose
\* TIME (when the table has TIME) and SAP_FLUX are neither masked nor NaN, in
\* their original order, every column cut to those same indices; filtering by
\* SAP_FLUX first and TIME second gives the same table; and these are the
\* rows of the CSV a successful run writes.
C1_FilterExact ==
    PastFilter =>
        LET t0 == input.tab
            idx == Ascending(SurvivingRows(t0))
            fluxFirst == TableIndex(t0, KeepMask(t0["SAP_FLUX"], NRows(t0)))
            thenTime == IF HasColumn(fluxFirst, "TIME")
                        THEN TableIndex(fluxFirst, KeepMask(fluxFirst["TIME"], NRows(fluxFirst)))
                        ELSE fluxFirst
        IN  /\ NRows(filtered) = Cardinality(SurvivingRows(t0))
            /\ \A c \in ColNames :
                 /\ filtered[c].present = t0[c].present
                 /\ t0[c].present =>
                      filtered[c].cells = [k \in 1..Len(idx) |-> t0[c].cells[idx[k]]]
            /\ thenTime = filtered
            /\ (Done /\ exitCode = 0) =>
                 \A c \in {"CADENCENO", "TIME", "SAP_FLUX", "SAP_FLUX_ERR"} :
                    csv.tab[c] = filtered[c]

C1_Witness ==
    /\ Done /\ exitCode = 0
    /\ NRows(input.tab) = 2 /\ NRows(csv.tab) = 1
    /\ input.tab["TIME"].present
    /\ \E i \in 1..2 : Invalid(input.tab["TIME"], i) /\ Invalid(input.tab["SAP_FLUX"], i)

\* C2 as stated: without TESSMAG and with a finite instrumental magnitude,
\* zero_point is 0 - median and the calibrated magnitude is the instrumental
\* magnitude minus the median.
C2_NegativeMedian ==
    (Done /\ exitCode = 0 /\ input.tess = None /\ PositiveRows(filtered) # {}) =>
        LET med == MedianOf(FiniteInstrumental(filtered))
        IN  /\ zero_point = Fin(0 - med)
            /\ \A i \in PositiveRows(filtered) :
                 csv.tab["Source_AMag_T1"].cells[i].v = Fin(RawMag(filtered)[i].v - med)

\* C2 amended: without TESSMAG and with a finite instrumental magnitude,
\* zero_point is 0.0 and every calibrated magnitude is the instrumental
\* magnitude itself.
C2_ZeroOffset ==
    (Done /\ exitCode = 0 /\ input.tess = None /\ PositiveRows(filtered) # {}) =>
        /\ zero_point = Fin(0)
        /\ \A i \in 1..NRows(filtered) :
             csv.tab["Source_AMag_T1"].cells[i].v = RawMag(filtered)[i]

C2_Witness ==
    /\ Done /\ exitCode = 0 /\ input.tess = None
    /\ PositiveRows(filtered) # {}
    /\ MedianOf(FiniteInstrumental(filtered)) # 0
    /\ zero_point = Fin(0)

\* C3 as stated: a finished run that found the destination present and had no
\* --overwrite returned 6 and left the destination as it was.
C3_ExistingDestination ==
    (Done /\ CsvExists(csvAtStart) /\ ~overwrite) =>
        (exitCode = 6 /\ csv = csvAtStart)

\* C3 amended: a finished run on an existing input file that found the
\* destination present and had no --overwrite returned 6 and left the
\* destination as it was; so does a second run after a successful first one.
C3_ExistingDestinationOfExistingInput ==
    (Done /\ input.kind # "Missing" /\ CsvExists(csvAtStart) /\ ~overwrite) =>
        (exitCode = 6 /\ csv = csvAtStart)

C3_Witness ==
    /\ Done /\ runs = 2 /\ ~overwrite
    /\ csvAtStart.kind = "full" /\ NRows(csvAtStart.tab) > 0
    /\ exitCode = 6 /\ csv = csvAtStart

\* C4: a run that failed in table.write returned 6 and left at csv_path no
\* file, the previous file, or the complete new file.
C4_NoTruncatedFile ==
    (Done /\ failedAt = "write") =>
        (exitCode = 6 /\ csv.kind \in {"absent", "old", "full"})

\* C5: a successful run wrote every row that left the filters, in order, and
\* a written row with flux <= 0 has a non-finite instrumental and a
\* non-finite calibrated magnitude; no step after the filters changes the
\* number of rows.
C5_RowsKept ==
    /\ (PastFilter /\ pc \in {"write", "done"}) => NRows(table) = NRows(filtered)
    /\ (Done /\ exitCode = 0) =>
         /\ csv.kind = "full"
         /\ NRows(csv.tab) = NRows(filtered)
         /\ csv.tab["CADENCENO"] = filtered["CADENCENO"]
         /\ csv.tab["SAP_FLUX"] = filtered["SAP_FLUX"]
         /\ Len(csv.tab["Source_AMag_T1"].cells) = NRows(filtered)
         /\ \A i \in NonPositiveRows(filtered) :
              /\ RawMag(filtered)[i].k \in {"nan", "inf", "ninf"}
              /\ csv.tab["Source_AMag_T1"].cells[i].v.k \in {"nan", "inf", "ninf"}

C5_Witness ==
    /\ Done /\ exitCode = 0
    /\ NonPositiveRows(csv.tab) # {}
    /\ PositiveRows(csv.tab) # {}

\* C6: with TESSMAG present and a finite instrumental magnitude, the median
\* of the calibrated magnitudes of the finite rows is TESSMAG, and zero_point
\* is TESSMAG minus the median over the positive-flux rows alone.
C6_MedianIsReference ==
    (Done /\ exitCode = 0 /\ input.tess # None /\ PositiveRows(filtered) # {}) =>
        /\ \A i \in PositiveRows(filtered) : csv.tab["Source_AMag_T1"].cells[i].v.k = "fin"
        /\ MedianOf(ValuesOver(csv.tab, "Source_AMag_T1", PositiveRows(filtered))) = input.tess.v
        /\ zero_point = Fin(input.tess.v - MedianOf(FiniteInstrumental(filtered)))

C6_Witness ==
    /\ Done /\ exitCode = 0 /\ input.tess # None
    /\ PositiveRows(filtered) # {}
    /\ NonPositiveRows(filtered) # {}
    /\ MedianOf(FiniteInstrumental(filtered)) # 0

\* C7: a run that opened an input without HDU 1, with a non-table HDU 1, with
\* an HDU 1 without data, or with a table without SAP_FLUX returned 5 and
\* left the destination as it was, whether or not the table has TIME and
\* whatever the TIME filter removed.
StructuralFailure(inp) ==
    \/ inp.kind \in {"OneHdu", "ImageHdu", "NoData"}
    \/ inp.kind = "Table" /\ ~inp.tab["SAP_FLUX"].present

C8_OptionalDataMissing ==
    (PastFilter /\ pc \in {"write", "done"}) =>
        /\ ~input.tab["SAP_FLUX_ERR"].present =>
             /\ "warn_fluxerr" \in stderr
             /\ ~table["Source_AMag_Error_T1"].present
        /\ input.tab["SAP_FLUX_ERR"].present =>
             /\ "warn_fluxerr" \notin stderr
             /\ table["Source_AMag_Error_T1"].present
        /\ input.tess = None =>
             /\ "warn_tessmag" \in stderr
             /\ zero_point \in {Fin(0), None}
        /\ table["Source_AMag_T1"].present
        /\ Len(table["Source_AMag_T1"].cells) = NRows(filtered)
        /\ Done => \/ exitCode = 0 /\ csv = CsvFull(table)
                   \/ exitCode = 6 /\ failedAt = "write"

C8_Witness ==
    /\ Done /\ exitCode = 0
    /\ ~input.tab["SAP_FLUX_ERR"].present /\ input.tess = None
    /\ stderr = {"warn_tessmag", "warn_fluxerr"}
    /\ csv = CsvFull(table) /\ NRows(table) > 0

\* C9: the handle of fits.open is open only inside the with block, and no
\* finished run has it open.
C9_HandleClosed ==
    /\ Done => ~hdul
    /\ hdul => pc \in {"check_hdu", "filter_time", "filter_flux", "derive", "write"}

C9_Witness ==
    /\ Done /\ everOpened /\ ~hdul
    /\ exitCode = 5 /\ failedAt = "flux"

\* C10: a finished run on a missing input returned 2 without calling
\* fits.open; a finished run on an existing input whose destination existed
\* without --overwrite returned 6 without calling fits.open, whatever the
\* input holds; no run calls fits.open before both checks passed; and a run
\* that returned 0 left the complete CSV of its table.
C10_CheckOrder ==
    /\ everOpened => (input.kind # "Missing" /\ (~CsvExists(csvAtStart) \/ overwrite))
    /\ Done =>
         /\ input.kind = "Missing" => (exitCode = 2 /\ ~everOpened /\ failedAt = "input")
         /\ (input.kind # "Missing" /\ CsvExists(csvAtStart) /\ ~overwrite) =>
              (exitCode = 6 /\ ~everOpened /\ failedAt = "dest")
         /\ exitCode = 0 => (csv = CsvFull(table) /\ PastFilter /\ everOpened)

C10_Witness ==
    /\ Done /\ exitCode = 6 /\ ~everOpened
    /\ input.kind \in {"Corrupt", "OneHdu"}

====
